---- MODULE Spec2Model ----
(***************************************************************************)
(* Lost-and-found application: the entity store (items, claims), the       *)
(* controller functions of src/src/lib/actions.ts, the admin dashboard,    *)
(* the item detail page with its claim form, and the report wizard.        *)
(*                                                                         *)
(* Strings are sequences of one-character strings, so that length checks,  *)
(* trimming and lower-casing are computed as the code computes them.       *)
(***************************************************************************)
EXTENDS Integers, Sequences, FiniteSets, TLC

VARIABLES
    items,        \* table "items": id -> row
    claims,       \* table "claims": id -> row
    nextItemId,   \* next identifier / insertion number of table items
    nextClaimId,  \* next identifier / insertion number of table claims
    call,         \* the controller call made by the latest step (NoCall if none)
    admin,        \* admin dashboard sessions: session -> component state
    page,         \* item detail page of a claimant
    wizard,       \* report wizard component state
    raw,          \* a raw security answer typed by a user (normalization check)
    browse,       \* browse page component state
    home,         \* home page component state
    dash          \* an admin dashboard session with its handlers in flight

storeVars == <<items, claims, nextItemId, nextClaimId>>
vars == <<items, claims, nextItemId, nextClaimId, call, admin, page, wizard, raw,
          browse, home, dash>>

(***************************************************************************)
(* Bounds of the model.                                                    *)
(***************************************************************************)
MaxItems == 2
MaxClaims == 2
NumAdmins == 2
MaxStrLen == 5
UiMaxItems == 1
UiMaxClaims == 1

(***************************************************************************)
(* Values.                                                                 *)
(***************************************************************************)
\* null in the place of a string; undefined in the place of an enum value.
Null == <<"null">>
Undefined == "undefined"

ItemStatus == {"pending", "approved", "returned"}
ClaimStatus == {"pending", "approved", "denied"}
ItemType == {"lost", "found"}
ItemCategory == {"electronics", "clothing", "books", "accessories", "sports", "other"}

NoCall == [op |-> "none", ok |-> FALSE]

(***************************************************************************)
(* Strings.                                                                *)
(***************************************************************************)
IsWhitespace(c) == c \in {" ", "\t", "\n"}

LowerChar(c) ==
    CASE c = "A" -> "a"
      [] c = "B" -> "b"
      [] c = "C" -> "c"
      [] OTHER -> c

\* String.prototype.toLowerCase
ToLowerCase(s) == [i \in 1..Len(s) |-> LowerChar(s[i])]

RECURSIVE TrimStart(_)
TrimStart(s) ==
    IF s # <<>> /\ IsWhitespace(Head(s)) THEN TrimStart(Tail(s)) ELSE s

RECURSIVE TrimEnd(_)
TrimEnd(s) ==
    IF s # <<>> /\ IsWhitespace(s[Len(s)])
    THEN TrimEnd(SubSeq(s, 1, Len(s) - 1))
    ELSE s

\* A trim that strips at most one whitespace character from each end.
TrimOneEach(s) ==
    LET a == IF s # <<>> /\ IsWhitespace(Head(s)) THEN Tail(s) ELSE s
    IN  IF a # <<>> /\ IsWhitespace(a[Len(a)]) THEN SubSeq(a, 1, Len(a) - 1) ELSE a

\* String.prototype.trim
Trim(s) == TrimEnd(TrimStart(s))

\* The string of n copies of character c.
Rep(c, n) == [i \in 1..n |-> c]

Restrict(f, S) == [x \in S |-> f[x]]

\* The pieces of s between the occurrences of character c.
RECURSIVE Split(_, _)
Split(s, c) ==
    IF \A k \in 1..Len(s) : s[k] # c THEN <<s>>
    ELSE LET k == CHOOSE j \in 1..Len(s) :
                     s[j] = c /\ \A h \in 1..(j - 1) : s[h] # c
         IN  <<SubSeq(s, 1, k - 1)>> \o Split(SubSeq(s, k + 1, Len(s)), c)

Letters ==
    {"a", "b", "c", "d", "e", "f", "g", "h", "i", "j", "k", "l", "m",
     "n", "o", "p", "q", "r", "s", "t", "u", "v", "w", "x", "y", "z",
     "A", "B", "C", "D", "E", "F", "G", "H", "I", "J", "K", "L", "M",
     "N", "O", "P", "Q", "R", "S", "T", "U", "V", "W", "X", "Y", "Z"}
Digits == {"0", "1", "2", "3", "4", "5", "6", "7", "8", "9"}

\* z.string().email(): the pattern
\*   ^(?!\.)(?!.*\.\.)([A-Za-z0-9_'+\-\.]*)[A-Za-z0-9_+-]@
\*    ([A-Za-z0-9][A-Za-z0-9\-]*\.)+[A-Za-z]{2,}$
IsEmail(s) ==
    LET parts == Split(s, "@")
        local == parts[1]
        labels == Split(parts[2], ".")
        n == Len(labels)
    IN  /\ Len(parts) = 2
        /\ s[1] # "."
        /\ \A k \in 1..(Len(s) - 1) : ~(s[k] = "." /\ s[k + 1] = ".")
        /\ local # <<>>
        /\ \A k \in 1..Len(local) :
              local[k] \in Letters \cup Digits \cup {"_", "'", "+", "-", "."}
        /\ local[Len(local)] \in Letters \cup Digits \cup {"_", "+", "-"}
        /\ n >= 2
        /\ Len(labels[n]) >= 2
        /\ \A k \in 1..Len(labels[n]) : labels[n][k] \in Letters
        /\ \A j \in 1..(n - 1) :
              /\ labels[j] # <<>>
              /\ labels[j][1] \in Letters \cup Digits
              /\ \A k \in 1..Len(labels[j]) :
                    labels[j][k] \in Letters \cup Digits \cup {"-"}

Str_abc == <<"a", "b", "c">>
Str_Abc == <<"A", "b", "c">>
Str_sABCs == <<" ", "A", "B", "C", " ">>
Str_ac == <<"a", "c">>
Str_email == <<"a", "@", "b", ".", "e", "d", "u">>
Str_notEmail == <<"n", "o", "t", "-", "a", "n", "-", "e", "m", "a", "i", "l">>
Str_date == <<"2", "0", "2", "6", "-", "0", "2", "-", "1", "4">>
Str_time == <<"1", "2", ":", "3", "0">>
Str_place == <<"L", "i", "b", "r", "a", "r", "y">>
Str_name == <<"J", "o">>
Str_url == <<"u", "r", "l">>

(***************************************************************************)
(* The entity store: tables items and claims of the schema, and the        *)
(* controller functions of lib/actions.ts acting on them.  Every           *)
(* controller step records the call and its return value in call; err is   *)
(* the store answering with an error (unavailable, rejected).              *)
(***************************************************************************)

\* What is recorded of a controller call: the function, and for a call the store
\* carried out, its entity, its argument and the success it returned.
CallRec(op, id, arg, ok) ==
    IF ok THEN [op |-> op, id |-> id, arg |-> arg, ok |-> TRUE]
    ELSE [op |-> op, ok |-> FALSE]

\* The constraints of table items (not null, check) on an inserted row.
ItemRowOk(row) ==
    /\ row.category \in ItemCategory
    /\ row.type \in ItemType
    /\ row.status \in ItemStatus
    /\ \A f \in {"title", "description", "location", "date_occurred",
                  "time_occurred", "contact_email", "security_answer"} :
           row[f] # Null

\* Constraints of claims without the reference from item_id to items.
ClaimRowOkNoReference(row) ==
    /\ row.status \in ClaimStatus
    /\ \A f \in {"claimant_name", "claimant_email", "security_answer"} :
           row[f] # Null

\* Constraints of claims that also refuse a claim on an item not approved.
ClaimRowOkApprovedItem(row) ==
    /\ row.item_id \in DOMAIN items
    /\ items[row.item_id].status = "approved"
    /\ row.status \in ClaimStatus
    /\ \A f \in {"claimant_name", "claimant_email", "security_answer"} :
           row[f] # Null

\* The constraints of table claims on an inserted row; item_id references items.
ClaimRowOk(row) ==
    /\ row.item_id \in DOMAIN items
    /\ row.status \in ClaimStatus
    /\ \A f \in {"claimant_name", "claimant_email", "security_answer"} :
           row[f] # Null

\* A row built by spreading the caller's record: a status it carries is kept.
ItemRowSpread(formData, imageUrl) ==
    [title |-> formData.title,
     description |-> formData.description,
     category |-> formData.category,
     type |-> formData.type,
     location |-> formData.location,
     date_occurred |-> formData.date_occurred,
     time_occurred |-> formData.time_occurred,
     contact_email |-> formData.contact_email,
     image_url |-> imageUrl,
     security_answer |-> Trim(ToLowerCase(formData.security_answer)),
     status |-> IF "status" \in DOMAIN formData /\ formData.status # Undefined
                THEN formData.status ELSE "pending"]

\* A row whose security answer is trimmed of one character at each end only.
ItemRowTrimOnce(formData, imageUrl) ==
    [ItemRowSpread(formData, imageUrl) EXCEPT
        !.security_answer = TrimOneEach(ToLowerCase(formData.security_answer)),
        !.status = "pending"]

\* createItem: the row handed to insert.
ItemRow(formData, imageUrl) ==
    [title |-> formData.title,
     description |-> formData.description,
     category |-> formData.category,
     type |-> formData.type,
     location |-> formData.location,
     date_occurred |-> formData.date_occurred,
     time_occurred |-> formData.time_occurred,
     contact_email |-> formData.contact_email,
     image_url |-> imageUrl,
     security_answer |-> Trim(ToLowerCase(formData.security_answer)),
     status |-> "pending"]

\* A claim row that is approved at once when its answer equals the item's.
ClaimRowAutoApprove(claimData) ==
    [item_id |-> claimData.item_id,
     claimant_name |-> claimData.claimant_name,
     claimant_email |-> claimData.claimant_email,
     security_answer |-> Trim(ToLowerCase(claimData.security_answer)),
     status |-> IF /\ claimData.item_id \in DOMAIN items
                   /\ items[claimData.item_id].security_answer =
                          Trim(ToLowerCase(claimData.security_answer))
                THEN "approved" ELSE "pending"]

\* A claim row whose security answer is lower-cased but not trimmed.
ClaimRowNoTrim(claimData) ==
    [item_id |-> claimData.item_id,
     claimant_name |-> claimData.claimant_name,
     claimant_email |-> claimData.claimant_email,
     security_answer |-> ToLowerCase(claimData.security_answer),
     status |-> "pending"]

\* createClaim: the row handed to insert ({...claimData, security_answer, status}).
ClaimRow(claimData) ==
    [item_id |-> claimData.item_id,
     claimant_name |-> claimData.claimant_name,
     claimant_email |-> claimData.claimant_email,
     security_answer |-> Trim(ToLowerCase(claimData.security_answer)),
     status |-> "pending"]

\* A claims table that keeps the claims of a deleted item.
NoCascade(cl, id) == cl

\* references items(id) on delete cascade: the claims left when item id is deleted.
CascadeClaims(cl, id) == Restrict(cl, {c \in DOMAIN cl : cl[c].item_id # id})

createItem(formData, imageUrl, err) ==
    LET row == ItemRow(formData, imageUrl)
        ok == ~err /\ ItemRowOk(row)
    IN  /\ items' = IF ok
                    THEN items @@ (nextItemId :>
                            (row @@ [id |-> nextItemId, created_at |-> nextItemId]))
                    ELSE items
        /\ nextItemId' = IF ok THEN nextItemId + 1 ELSE nextItemId
        /\ call' = CallRec("createItem", nextItemId,
                            IF "status" \in DOMAIN formData THEN formData.status
                            ELSE Undefined, ok)
        /\ UNCHANGED <<claims, nextClaimId>>

\* An update that toggles: setting the status a row already has puts the row
\* back to pending.
updateItemStatusToggle(id, status, err) ==
    LET ok == ~err /\ status \in ItemStatus
    IN  /\ items' = IF ok /\ id \in DOMAIN items
                    THEN [items EXCEPT ![id].status =
                             IF items[id].status = status THEN "pending" ELSE status]
                    ELSE items
        /\ call' = CallRec("updateItemStatus", id, status, ok)
        /\ UNCHANGED <<claims, nextItemId, nextClaimId>>

\* An update with no condition on the id: the status of every item is set.
updateItemStatusEveryRow(id, status, err) ==
    LET ok == ~err /\ status \in ItemStatus
    IN  /\ items' = IF ok
                    THEN [i \in DOMAIN items |-> [items[i] EXCEPT !.status = status]]
                    ELSE items
        /\ call' = CallRec("updateItemStatus", id, status, ok)
        /\ UNCHANGED <<claims, nextItemId, nextClaimId>>

updateItemStatus(id, status, err) ==
    LET ok == ~err /\ status \in ItemStatus
    IN  /\ items' = IF ok /\ id \in DOMAIN items
                    THEN [items EXCEPT ![id].status = status]
                    ELSE items
        /\ call' = CallRec("updateItemStatus", id, status, ok)
        /\ UNCHANGED <<claims, nextItemId, nextClaimId>>

deleteItem(id, err) ==
    LET ok == ~err
    IN  /\ items' = IF ok THEN Restrict(items, DOMAIN items \ {id}) ELSE items
        /\ claims' = IF ok THEN CascadeClaims(claims, id) ELSE claims
        /\ call' = CallRec("deleteItem", id, Undefined, ok)
        /\ UNCHANGED <<nextItemId, nextClaimId>>

createClaim(claimData, err) ==
    LET row == ClaimRow(claimData)
        ok == ~err /\ ClaimRowOk(row)
    IN  /\ claims' = IF ok
                     THEN claims @@ (nextClaimId :>
                            (row @@ [id |-> nextClaimId, created_at |-> nextClaimId]))
                     ELSE claims
        /\ nextClaimId' = IF ok THEN nextClaimId + 1 ELSE nextClaimId
        /\ call' = CallRec("createClaim", nextClaimId, claimData.item_id, ok)
        /\ UNCHANGED <<items, nextItemId>>

updateClaimStatus(id, status, err) ==
    LET ok == ~err /\ status \in ClaimStatus
    IN  /\ claims' = IF ok /\ id \in DOMAIN claims
                     THEN [claims EXCEPT ![id].status = status]
                     ELSE claims
        /\ call' = CallRec("updateClaimStatus", id, status, ok)
        /\ UNCHANGED <<items, nextItemId, nextClaimId>>

(***************************************************************************)
(* Initial state: empty tables (the schema without its sample rows), no    *)
(* dashboard loaded, no page open, the wizard just mounted.                *)
(***************************************************************************)
EmptyTable == [x \in {} |-> x]

InitStore ==
    /\ items = EmptyTable
    /\ claims = EmptyTable
    /\ nextItemId = 1
    /\ nextClaimId = 1
    /\ call = NoCall

\* A complete report record, as the report form yields it.
BaseForm ==
    [type |-> "lost",
     category |-> "electronics",
     title |-> Str_abc,
     date_occurred |-> Str_date,
     time_occurred |-> Str_time,
     location |-> Str_place,
     description |-> Rep("d", 10),
     contact_email |-> Str_email,
     security_answer |-> Str_Abc]

(***************************************************************************)
(* SpecApi: the controller functions called directly, by any caller, with  *)
(* any argument of their parameter types.                                  *)
(***************************************************************************)

\* Records handed to createItem by a direct caller: a record may carry a status.
ApiFormData == { BaseForm @@ [status |-> st] : st \in {Undefined, "approved"} }

\* Records handed to createClaim: any item id, an answer that normalizes to the
\* item's stored answer ("abc") or one that does not.
ApiClaimData ==
    { [item_id |-> i, claimant_name |-> Str_name, claimant_email |-> Str_email,
       security_answer |-> a] :
         i \in 0..(nextItemId - 1), a \in {Str_sABCs} }

ApiCreateItem ==
    /\ nextItemId <= MaxItems
    /\ \E f \in ApiFormData : createItem(f, Null, FALSE)
    /\ UNCHANGED <<admin, page, wizard, raw, browse, home, dash>>

ApiUpdateItemStatus ==
    /\ \E id \in 0..(nextItemId - 1), status \in ItemStatus :
          updateItemStatus(id, status, FALSE)
    /\ UNCHANGED <<admin, page, wizard, raw, browse, home, dash>>

ApiDeleteItem ==
    /\ \E id \in 0..(nextItemId - 1) : deleteItem(id, FALSE)
    /\ UNCHANGED <<admin, page, wizard, raw, browse, home, dash>>

ApiCreateClaim ==
    /\ nextClaimId <= MaxClaims
    /\ \E d \in ApiClaimData : createClaim(d, FALSE)
    /\ UNCHANGED <<admin, page, wizard, raw, browse, home, dash>>

ApiUpdateClaimStatus ==
    /\ \E id \in 0..(nextClaimId - 1), status \in {"approved", "denied"} :
          updateClaimStatus(id, status, FALSE)
    /\ UNCHANGED <<admin, page, wizard, raw, browse, home, dash>>

\* A call the store answers with an error.  The outcome is the same whatever the
\* arguments (nothing changes, the function reports failure), so one call of each
\* function stands for all.
ApiStoreError ==
    /\ \/ createItem(BaseForm, Null, TRUE)
       \/ updateItemStatus(0, "approved", TRUE)
       \/ deleteItem(0, TRUE)
       \/ createClaim([item_id |-> 0, claimant_name |-> Str_name,
                       claimant_email |-> Str_email, security_answer |-> Str_ac], TRUE)
       \/ updateClaimStatus(0, "approved", TRUE)
    /\ UNCHANGED <<admin, page, wizard, raw, browse, home, dash>>

InitApi ==
    /\ InitStore
    /\ admin = <<>>
    /\ page = <<>>
    /\ wizard = <<>>
    /\ raw = <<>>
    /\ browse = <<>>
    /\ home = <<>>
    /\ dash = <<>>

NextApi ==
    \/ ApiCreateItem
    \/ ApiUpdateItemStatus
    \/ ApiDeleteItem
    \/ ApiCreateClaim
    \/ ApiUpdateClaimStatus
    \/ ApiStoreError

SpecApi == InitApi /\ [][NextApi]_vars

(***************************************************************************)
(* Queries of lib/actions.ts.  Rows come back ordered by created_at        *)
(* descending; created_at (now()) grows with the insertion number.         *)
(***************************************************************************)
RECURSIVE RowsDesc(_, _)
RowsDesc(table, n) ==
    IF n = 0 THEN <<>>
    ELSE (IF n \in DOMAIN table THEN <<table[n]>> ELSE <<>>) \o RowsDesc(table, n - 1)

getAllItems == RowsDesc(items, nextItemId - 1)

\* select("*, item:items(*)"): each claim with its item embedded.
getAllClaims ==
    LET rows == RowsDesc(claims, nextClaimId - 1)
    IN  [k \in 1..Len(rows) |-> rows[k] @@ [item |-> items[rows[k].item_id]]]

getAnalytics ==
    [totalItems |-> Cardinality(DOMAIN items),
     lostItems |-> Cardinality({i \in DOMAIN items : items[i].type = "lost"}),
     foundItems |-> Cardinality({i \in DOMAIN items : items[i].type = "found"}),
     returnedItems |-> Cardinality({i \in DOMAIN items : items[i].status = "returned"}),
     pendingItems |-> Cardinality({i \in DOMAIN items : items[i].status = "pending"}),
     totalClaims |-> Cardinality(DOMAIN claims)]

NoItem == [id |-> 0, status |-> "none"]

\* .eq("id", id).single(): the row, or an error (null) when no row matches.
getItemById(id) == IF id \in DOMAIN items THEN items[id] ELSE NoItem

\* getItems that does not apply its status filter.
getItemsAnyStatus(filters) ==
    SelectSeq(RowsDesc(items, nextItemId - 1),
              LAMBDA row :
                 /\ filters.type # Undefined => row.type = filters.type
                 /\ filters.category # Undefined => row.category = filters.category)

\* getItems(filters): rows ordered by created_at descending, restricted by the
\* filters that are given (Undefined: not given).
getItems(filters) ==
    SelectSeq(RowsDesc(items, nextItemId - 1),
              LAMBDA row :
                 /\ filters.type # Undefined => row.type = filters.type
                 /\ filters.category # Undefined => row.category = filters.category
                 /\ filters.status # Undefined => row.status = filters.status)

\* getRecentItems(limit): the newest approved rows, at most limit of them.
getRecentItems(limit) ==
    LET rows == SelectSeq(RowsDesc(items, nextItemId - 1),
                          LAMBDA row : row.status = "approved")
    IN  SubSeq(rows, 1, IF Len(rows) < limit THEN Len(rows) ELSE limit)

(***************************************************************************)
(* Admin dashboard (app/admin/page.tsx, AdminDashboard).  A session holds  *)
(* the lists it last fetched; a handler is a click, then the awaited store *)
(* update, then the awaited fetchData.                                     *)
(***************************************************************************)
NoTask == [kind |-> "none"]
NoEntity == <<"none", 0>>

ZeroAnalytics ==
    [totalItems |-> 0, lostItems |-> 0, foundItems |-> 0,
     returnedItems |-> 0, pendingItems |-> 0, totalClaims |-> 0]

\* useState initial values of AdminDashboard, its first fetchData pending.
DashboardMounted ==
    [items |-> <<>>, claims |-> <<>>, analytics |-> ZeroAnalytics,
     loading |-> TRUE, actionLoading |-> NoEntity, task |-> [kind |-> "mount"]]

Admins == 1..NumAdmins

\* fetchData: the three queries answered, the lists and the counts replaced,
\* loading cleared; the handler that awaited it then clears actionLoading.
FetchData(s) ==
    /\ admin[s].task.kind \in {"mount", "fetch"}
    /\ admin' = [admin EXCEPT ![s] =
                    [items |-> getAllItems, claims |-> getAllClaims,
                     analytics |-> getAnalytics, loading |-> FALSE,
                     actionLoading |-> IF admin[s].task.kind = "fetch" THEN NoEntity
                                       ELSE admin[s].actionLoading,
                     task |-> NoTask]]
    /\ call' = NoCall
    /\ UNCHANGED <<items, claims, nextItemId, nextClaimId, page, wizard, raw, browse, home, dash>>

\* The rows of the items table of the dashboard, and of its claims table.
ShownItems(s) == {admin[s].items[k] : k \in 1..Len(admin[s].items)}
ShownClaims(s) == {admin[s].claims[k] : k \in 1..Len(admin[s].claims)}

\* A button of the dashboard can be clicked: the tables are rendered (not the
\* loader), no handler of this session is in flight, the button is not disabled.
CanClick(s, entity) ==
    /\ admin[s].task = NoTask
    /\ ~admin[s].loading
    /\ admin[s].actionLoading # entity

\* The click: setActionLoading(id), then the store update is awaited.
StartTask(s, kind, entity) ==
    /\ admin' = [admin EXCEPT ![s].actionLoading = entity,
                              ![s].task = [kind |-> kind, id |-> entity[2]]]
    /\ call' = NoCall
    /\ UNCHANGED <<items, claims, nextItemId, nextClaimId, page, wizard, raw, browse, home, dash>>

\* The Approve button is rendered for a row shown as pending.
ClickApprove(s) ==
    \E row \in ShownItems(s) :
        /\ row.status = "pending"
        /\ CanClick(s, <<"item", row.id>>)
        /\ StartTask(s, "approve", <<"item", row.id>>)

\* The Mark as Returned button is rendered for a row shown as approved.
ClickReturn(s) ==
    \E row \in ShownItems(s) :
        /\ row.status = "approved"
        /\ CanClick(s, <<"item", row.id>>)
        /\ StartTask(s, "return", <<"item", row.id>>)

\* The Delete button is rendered for every row; the confirm dialog is accepted.
ClickDelete(s) ==
    \E row \in ShownItems(s) :
        /\ CanClick(s, <<"item", row.id>>)
        /\ StartTask(s, "delete", <<"item", row.id>>)

\* The Approve Claim and Deny Claim buttons are rendered for a claim shown pending.
ClickClaimAction(s) ==
    \E row \in ShownClaims(s), status \in {"approved", "denied"} :
        /\ row.status = "pending"
        /\ CanClick(s, <<"claim", row.id>>)
        /\ StartTask(s, status, <<"claim", row.id>>)

\* After the store update (whatever it returned) fetchData starts: loading is set.
AwaitFetch(s) ==
    /\ admin' = [admin EXCEPT ![s].task = [kind |-> "fetch"], ![s].loading = TRUE]
    /\ UNCHANGED <<page, wizard, raw, browse, home, dash>>

handleApprove(s) ==
    /\ admin[s].task.kind = "approve"
    /\ \E err \in BOOLEAN : updateItemStatus(admin[s].task.id, "approved", err)
    /\ AwaitFetch(s)

handleReturn(s) ==
    /\ admin[s].task.kind = "return"
    /\ \E err \in BOOLEAN : updateItemStatus(admin[s].task.id, "returned", err)
    /\ AwaitFetch(s)

handleDelete(s) ==
    /\ admin[s].task.kind = "delete"
    /\ \E err \in BOOLEAN : deleteItem(admin[s].task.id, err)
    /\ AwaitFetch(s)

handleClaimAction(s) ==
    /\ admin[s].task.kind \in {"approved", "denied"}
    /\ \E err \in BOOLEAN : updateClaimStatus(admin[s].task.id, admin[s].task.kind, err)
    /\ AwaitFetch(s)

(***************************************************************************)
(* Item detail page (ItemDetailPage) and its claim form (ClaimModal).      *)
(***************************************************************************)
\* claimSchema
claimSchemaOk(data) ==
    /\ Len(data.claimant_name) >= 2
    /\ IsEmail(data.claimant_email)
    /\ Len(data.security_answer) >= 1

\* What a claimant may type into the claim form.
ClaimFormInputs ==
    { [claimant_name |-> Str_name, claimant_email |-> Str_email,
       security_answer |-> Str_sABCs],
      [claimant_name |-> Str_name, claimant_email |-> Str_notEmail,
       security_answer |-> Str_sABCs],
      [claimant_name |-> Str_name, claimant_email |-> Str_email,
       security_answer |-> <<>>] }

PageClosed == [item |-> NoItem, submitResult |-> "null"]

\* The page is opened on an item link: fetchItem stores what getItemById returns.
OpenItemPage ==
    /\ \E id \in 1..(nextItemId - 1) :
          page' = [item |-> getItemById(id), submitResult |-> "null"]
    /\ call' = NoCall
    /\ UNCHANGED <<items, claims, nextItemId, nextClaimId, admin, wizard, raw, browse, home, dash>>

\* ClaimModal is rendered when the fetched item is shown as approved; its form
\* is submitted, handleSubmit lets valid data through to onSubmit, which calls
\* createClaim with the page's item id.
SubmitClaimForm ==
    /\ page.item.status = "approved"
    /\ page.submitResult # "success"
    /\ nextClaimId <= UiMaxClaims
    /\ \E data \in ClaimFormInputs, err \in BOOLEAN :
          /\ claimSchemaOk(data)
          /\ createClaim(data @@ [item_id |-> page.item.id], err)
    /\ page' = [page EXCEPT !.submitResult = IF call'.ok THEN "success" ELSE "error"]
    /\ UNCHANGED <<admin, wizard, raw, browse, home, dash>>

\* A report that passed the wizard is submitted without an image: onSubmit calls
\* createItem with the validated record (the wizard itself is SpecReport's).
SubmitValidReport ==
    /\ nextItemId <= UiMaxItems
    /\ \E err \in BOOLEAN : createItem(BaseForm, Null, err)
    /\ UNCHANGED <<admin, page, wizard, raw, browse, home, dash>>

(***************************************************************************)
(* Spec: the application as its users drive it: reporters, claimants and   *)
(* admin dashboard sessions sharing one store.                             *)
(***************************************************************************)
Init ==
    /\ InitStore
    /\ admin = [s \in Admins |-> DashboardMounted]
    /\ page = PageClosed
    /\ wizard = <<>>
    /\ raw = <<>>
    /\ browse = <<>>
    /\ home = <<>>
    /\ dash = <<>>

Next ==
    \/ SubmitValidReport
    \/ OpenItemPage
    \/ SubmitClaimForm
    \/ \E s \in Admins :
          \/ FetchData(s)
          \/ ClickApprove(s)
          \/ ClickReturn(s)
          \/ ClickDelete(s)
          \/ ClickClaimAction(s)
          \/ handleApprove(s)
          \/ handleReturn(s)
          \/ handleDelete(s)
          \/ handleClaimAction(s)

Spec == Init /\ [][Next]_vars

(***************************************************************************)
(* Report wizard (app/report/page.tsx, ReportFormContent) and the schemas   *)
(* of lib/types.ts that validate it.                                        *)
(***************************************************************************)
TitleMinLen == 3
TitleMaxLen == 100
DescriptionMinLen == 10
DescriptionMaxLen == 500
AnswerMinLen == 3
AnswerMaxLen == 200

reportStep1SchemaOk(v) ==
    /\ v.type \in ItemType
    /\ v.category \in ItemCategory
    /\ Len(v.title) >= TitleMinLen
    /\ Len(v.title) <= TitleMaxLen

\* reportStep2Schema with the description limits exclusive.
reportStep2SchemaExclusive(v) ==
    /\ Len(v.date_occurred) >= 1
    /\ Len(v.time_occurred) >= 1
    /\ Len(v.location) >= 1
    /\ Len(v.description) > DescriptionMinLen
    /\ Len(v.description) < DescriptionMaxLen

reportStep2SchemaOk(v) ==
    /\ Len(v.date_occurred) >= 1
    /\ Len(v.time_occurred) >= 1
    /\ Len(v.location) >= 1
    /\ Len(v.description) >= DescriptionMinLen
    /\ Len(v.description) <= DescriptionMaxLen

\* image: z.any().optional()
reportStep3SchemaOk(v) == TRUE

reportStep4SchemaOk(v) ==
    /\ IsEmail(v.contact_email)
    /\ Len(v.security_answer) >= AnswerMinLen
    /\ Len(v.security_answer) <= AnswerMaxLen

\* A resolver that validates the last stage only.
LastStepSchemaOk(v) == reportStep4SchemaOk(v)

\* fullReportSchema: the four step schemas merged; the form's resolver.
fullReportSchemaOk(v) ==
    /\ reportStep1SchemaOk(v)
    /\ reportStep2SchemaOk(v)
    /\ reportStep3SchemaOk(v)
    /\ reportStep4SchemaOk(v)

\* useForm's defaultValues; type comes from the page's ?type= parameter.
DefaultValues(type) ==
    [type |-> type,
     category |-> Undefined,
     title |-> <<>>,
     description |-> <<>>,
     date_occurred |-> <<>>,
     time_occurred |-> <<>>,
     location |-> <<>>,
     contact_email |-> <<>>,
     security_answer |-> <<>>]

\* The fields rendered (and validated by Next) at each step, steps 0..3.
fieldsPerStep ==
    <<{"type", "category", "title"},
      {"date_occurred", "time_occurred", "location", "description"},
      {},
      {"contact_email", "security_answer"}>>

\* What a reporter may put into each field.
FieldInputs ==
    [type |-> ItemType,
     category |-> {"electronics"},
     title |-> {Str_ac, Str_abc, Rep("t", TitleMaxLen + 1)},
     date_occurred |-> {Str_date},
     time_occurred |-> {Str_time},
     location |-> {Str_place},
     description |-> {Rep("d", DescriptionMinLen - 1), Rep("d", DescriptionMinLen)},
     contact_email |-> {Str_notEmail, Str_email},
     security_answer |-> {Str_ac, Str_Abc}]

\* A validateStep that lets every step through.
validateStepNone(v, step) == TRUE

\* A validateStep that asks for no error in the whole record (trigger()).
validateStepWholeRecord(v, step) == fullReportSchemaOk(v)

\* validateStep: trigger(fieldsPerStep[currentStep]) reports no error for the
\* fields of the step, which are the fields of that step's schema.
validateStep(v, step) ==
    CASE step = 0 -> reportStep1SchemaOk(v)
      [] step = 1 -> reportStep2SchemaOk(v)
      [] step = 2 -> reportStep3SchemaOk(v)
      [] step = 3 -> reportStep4SchemaOk(v)

\* The wizard as mounted: step 0, nothing selected, no submission running.
\* data and imageUrl are onSubmit's parameter and local while it runs.
WizardMounted(type) ==
    [values |-> DefaultValues(type),
     currentStep |-> 0,
     selectedFile |-> FALSE,
     isSubmitting |-> FALSE,
     submitError |-> FALSE,
     submitted |-> "never",
     pc |-> "idle",
     data |-> DefaultValues(Undefined),
     imageUrl |-> Null]

WizardOpen == wizard.pc # "navigated"

\* A field of the current step is edited (register / setValue).
SetValue ==
    /\ WizardOpen
    /\ \E f \in fieldsPerStep[wizard.currentStep + 1] :
          \E x \in FieldInputs[f] :
             wizard' = [wizard EXCEPT !.values[f] = x]
    /\ call' = NoCall
    /\ UNCHANGED <<storeVars, admin, page, raw, browse, home, dash>>

\* FileUpload at the photo step: an accepted file is selected, or removed.
SetSelectedFile ==
    /\ WizardOpen
    /\ wizard.currentStep = 2
    /\ \E file \in BOOLEAN : wizard' = [wizard EXCEPT !.selectedFile = file]
    /\ call' = NoCall
    /\ UNCHANGED <<storeVars, admin, page, raw, browse, home, dash>>

\* Next is rendered before the last step.
handleNext ==
    /\ WizardOpen
    /\ wizard.currentStep < 3
    /\ wizard' = IF validateStep(wizard.values, wizard.currentStep)
                 THEN [wizard EXCEPT !.currentStep = wizard.currentStep + 1]
                 ELSE wizard
    /\ call' = NoCall
    /\ UNCHANGED <<storeVars, admin, page, raw, browse, home, dash>>

\* Back is disabled at the first step.
handleBack ==
    /\ WizardOpen
    /\ wizard.currentStep > 0
    /\ wizard' = [wizard EXCEPT !.currentStep = wizard.currentStep - 1]
    /\ call' = NoCall
    /\ UNCHANGED <<storeVars, admin, page, raw, browse, home, dash>>

\* An upload that returns the public URL of the file even when storing it failed.
uploadImageAlwaysUrl(err) == Str_url

\* What uploadImage returns: the public URL of the stored file, null on an error.
uploadImageResult(err) == IF err THEN Null ELSE Str_url

\* uploadImage: the file is put in the bucket; null is returned on an error.
uploadImage(err) ==
    /\ call' = CallRec("uploadImage", 0, Undefined, ~err)
    /\ UNCHANGED storeVars

\* The form's submit event: the Submit button of the last step (disabled while
\* isSubmitting), or Enter in the title field, the only text input of step 0.
\* handleSubmit runs the resolver on all values and calls onSubmit only when
\* they pass; onSubmit starts with the upload when a file is selected.
\* One submission runs at a time.
SubmitForm ==
    /\ WizardOpen
    /\ wizard.pc = "idle"
    /\ \/ wizard.currentStep = 3 /\ ~wizard.isSubmitting
       \/ wizard.currentStep = 0
    /\ wizard' = IF fullReportSchemaOk(wizard.values)
                 THEN [wizard EXCEPT !.submitted = "valid",
                                     !.isSubmitting = TRUE,
                                     !.submitError = FALSE,
                                     !.data = wizard.values,
                                     !.imageUrl = Null,
                                     !.pc = IF wizard.selectedFile
                                            THEN "uploadImage" ELSE "createItem"]
                 ELSE [wizard EXCEPT !.submitted = "invalid"]
    /\ call' = NoCall
    /\ UNCHANGED <<storeVars, admin, page, raw, browse, home, dash>>

\* onSubmit: imageUrl = await uploadImage(selectedFile).
AwaitUploadImage ==
    /\ wizard.pc = "uploadImage"
    /\ \E err \in BOOLEAN :
          /\ uploadImage(err)
          /\ wizard' = [wizard EXCEPT !.imageUrl = uploadImageResult(err),
                                      !.pc = "createItem"]
    /\ UNCHANGED <<admin, page, raw, browse, home, dash>>

\* onSubmit: item = await createItem(data, imageUrl); router.push on an item,
\* setSubmitError otherwise; finally setIsSubmitting(false).
AwaitCreateItem ==
    /\ wizard.pc = "createItem"
    /\ \E err \in BOOLEAN : createItem(wizard.data, wizard.imageUrl, err)
    /\ wizard' = [wizard EXCEPT !.isSubmitting = FALSE,
                                !.submitError = ~call'.ok,
                                !.data = DefaultValues(Undefined),
                                !.imageUrl = Null,
                                !.pc = IF call'.ok THEN "navigated" ELSE "idle"]
    /\ UNCHANGED <<admin, page, raw, browse, home, dash>>

InitReport ==
    /\ InitStore
    /\ admin = <<>>
    /\ page = <<>>
    /\ \E type \in {Undefined, "found", "bogus"} : wizard = WizardMounted(type)
    /\ raw = <<>>
    /\ browse = <<>>
    /\ home = <<>>
    /\ dash = <<>>

NextReport ==
    \/ SetValue
    \/ SetSelectedFile
    \/ handleNext
    \/ handleBack
    \/ SubmitForm
    \/ AwaitUploadImage
    \/ AwaitCreateItem

SpecReport == InitReport /\ [][NextReport]_vars

(***************************************************************************)
(* SpecValidate: the report schemas of lib/types.ts applied to records      *)
(* whose title, description, security answer and email vary around the      *)
(* limits; the other fields are valid.                                      *)
(***************************************************************************)
Str_noTld == <<"a", "@", "b">>

ValidateTitleLens == {0, TitleMinLen - 1, TitleMinLen, TitleMaxLen, TitleMaxLen + 1}
ValidateDescriptionLens ==
    {5, DescriptionMinLen - 1, DescriptionMinLen, DescriptionMaxLen, DescriptionMaxLen + 1}
ValidateAnswerLens == {0, AnswerMinLen - 1, AnswerMinLen, AnswerMaxLen, AnswerMaxLen + 1}
ValidateEmails == {<<>>, Str_notEmail, Str_noTld, Str_email}

SchemaResult(ok) == IF ok THEN "accepted" ELSE "rejected"

\* The validations that can be run: each stage's fields, and the whole record.
StageKeys == <<"stage1", "stage2", "stage3", "stage4">>

NotValidated ==
    [stage1 |-> "none", stage2 |-> "none", stage3 |-> "none", stage4 |-> "none",
     full |-> "none"]

\* trigger(fieldsPerStep[step]) (validateStep) run on the record.
ValidateStep ==
    /\ \E step \in 0..3 :
          wizard' = [wizard EXCEPT !.result[StageKeys[step + 1]] =
                        SchemaResult(validateStep(wizard.values, step))]
    /\ call' = NoCall
    /\ UNCHANGED <<storeVars, admin, page, raw, browse, home, dash>>

\* The form's resolver (zodResolver(fullReportSchema)) run on the record.
ValidateFull ==
    /\ wizard' = [wizard EXCEPT !.result.full =
                     SchemaResult(fullReportSchemaOk(wizard.values))]
    /\ call' = NoCall
    /\ UNCHANGED <<storeVars, admin, page, raw, browse, home, dash>>

InitValidate ==
    /\ InitStore
    /\ admin = <<>>
    /\ page = <<>>
    /\ raw = <<>>
    /\ browse = <<>>
    /\ home = <<>>
    /\ dash = <<>>
    /\ \E t \in ValidateTitleLens, d \in ValidateDescriptionLens,
          a \in ValidateAnswerLens, e \in ValidateEmails :
          wizard = [values |-> [BaseForm EXCEPT !.title = Rep("t", t),
                                                !.description = Rep("d", d),
                                                !.security_answer = Rep("s", a),
                                                !.contact_email = e],
                    result |-> NotValidated]

NextValidate ==
    \/ ValidateStep
    \/ ValidateFull

SpecValidate == InitValidate /\ [][NextValidate]_vars

(***************************************************************************)
(* SpecNorm: one raw security answer passed to createItem and to            *)
(* createClaim, and the stored (normalized) answer passed to createClaim    *)
(* again.                                                                   *)
(***************************************************************************)
NormAlphabet == {" ", "A", "B", "C", "b"}

\* Every string over NormAlphabet of at most MaxStrLen characters.
NormStrings == UNION {[1..n -> NormAlphabet] : n \in 0..MaxStrLen}

\* createItem with raw as the security answer of an otherwise complete report.
NormCreateItem ==
    /\ items = EmptyTable
    /\ nextItemId = 1
    /\ createItem([BaseForm EXCEPT !.security_answer = raw], Null, FALSE)
    /\ UNCHANGED <<admin, page, wizard, raw, browse, home, dash>>

\* createClaim on that item with the same raw answer.
NormCreateClaim ==
    /\ 1 \in DOMAIN items
    /\ nextClaimId = 1
    /\ createClaim([item_id |-> 1, claimant_name |-> Str_name,
                    claimant_email |-> Str_email, security_answer |-> raw], FALSE)
    /\ UNCHANGED <<admin, page, wizard, raw, browse, home, dash>>

\* createClaim with the answer the item already stores (normalized once) as its
\* input: the claim stores it normalized a second time.
NormCreateClaimFromStored ==
    /\ 1 \in DOMAIN items
    /\ nextClaimId = 2
    /\ createClaim([item_id |-> 1, claimant_name |-> Str_name,
                    claimant_email |-> Str_email,
                    security_answer |-> items[1].security_answer], FALSE)
    /\ UNCHANGED <<admin, page, wizard, raw, browse, home, dash>>

InitNorm ==
    /\ InitStore
    /\ admin = <<>>
    /\ page = <<>>
    /\ wizard = <<>>
    /\ raw \in NormStrings
    /\ browse = <<>>
    /\ home = <<>>
    /\ dash = <<>>

NextNorm ==
    \/ NormCreateItem
    \/ NormCreateClaim
    \/ NormCreateClaimFromStored

SpecNorm == InitNorm /\ [][NextNorm]_vars

(***************************************************************************)
(* Browse page (app/report/page.tsx, BrowsePage): the approved items are    *)
(* fetched once, a Fuse index is built over them, and filteredItems is      *)
(* computed from the fetched list, the query and the two filters.           *)
(***************************************************************************)
BrowseMaxItems == 3
MaxEvaluations == 2

\* Reports of the kinds the filters tell apart.
BrowseForms ==
    { [BaseForm EXCEPT !.type = tc[1], !.category = tc[2]] :
         tc \in {<<"lost", "electronics">>, <<"found", "electronics">>,
                 <<"lost", "clothing">>} }

\* What is typed into the search box: nothing, a blank, a word.
BrowseQueries == {<<>>, <<" ">>, Str_abc}

\* The queries that reach fuse.search: those not empty once trimmed.
SearchedQueries == {q \in BrowseQueries : Trim(q) # <<>>}

BrowseFilterTypes == {"all", "lost"}
BrowseFilterCategories == {"all", "electronics"}

\* What fuse.search may return over a list of n items: the matches, by their
\* position in the list (refIndex), best first; each item at most once.
Rankings(n) ==
    {r \in UNION {[1..k -> 1..n] : k \in 0..n} :
        \A a, b \in DOMAIN r : a # b => r[a] # r[b]}

BrowseMounted ==
    [items |-> <<>>,
     loading |-> TRUE,
     searchQuery |-> <<>>,
     filterType |-> "all",
     filterCategory |-> "all",
     fuse |-> [q \in SearchedQueries |-> <<>>],
     shown |-> <<>>,
     evaluations |-> 0]

\* fuse.search(query).map((r) => r.item)
FuseSearch(b, query) == [k \in 1..Len(b.fuse[query]) |-> b.items[b.fuse[query][k]]]

\* result.filter((item) => item.type === filterType)
FilterByType(result, filterType) ==
    SelectSeq(result, LAMBDA item : item.type = filterType)

\* result.filter((item) => item.category === filterCategory)
FilterByCategory(result, filterCategory) ==
    SelectSeq(result, LAMBDA item : item.category = filterCategory)

\* The survivors put back in store order (created_at descending).
RECURSIVE SortByCreatedDesc(_)
SortByCreatedDesc(result) ==
    IF result = <<>> THEN <<>>
    ELSE LET k == CHOOSE k \in DOMAIN result :
                     \A j \in DOMAIN result : result[j].created_at <= result[k].created_at
         IN  <<result[k]>> \o
             SortByCreatedDesc([j \in 1..(Len(result) - 1) |->
                                   IF j < k THEN result[j] ELSE result[j + 1]])

\* filteredItems that puts the survivors of a filter back in store order.
filteredItemsResorted(b) ==
    LET searched == IF Trim(b.searchQuery) # <<>>
                    THEN FuseSearch(b, b.searchQuery) ELSE b.items
        typed == IF b.filterType # "all"
                 THEN SortByCreatedDesc(FilterByType(searched, b.filterType))
                 ELSE searched
    IN  IF b.filterCategory # "all"
        THEN SortByCreatedDesc(FilterByCategory(typed, b.filterCategory))
        ELSE typed

\* filteredItems that ignores the filters.
filteredItemsUnfiltered(b) ==
    IF Trim(b.searchQuery) # <<>> THEN FuseSearch(b, b.searchQuery) ELSE b.items

\* filteredItems (useMemo): the search if there is a query, then the type
\* filter, then the category filter.
filteredItems(b) ==
    LET searched == IF Trim(b.searchQuery) # <<>>
                    THEN FuseSearch(b, b.searchQuery) ELSE b.items
        typed == IF b.filterType # "all"
                 THEN FilterByType(searched, b.filterType) ELSE searched
    IN  IF b.filterCategory # "all"
        THEN FilterByCategory(typed, b.filterCategory) ELSE typed

\* An evaluation that reverses the fetched list in place before using it.
EvaluateReversingInPlace(b) ==
    LET reversed == [k \in 1..Len(b.items) |-> b.items[Len(b.items) + 1 - k]]
    IN  [b EXCEPT !.items = reversed,
                  !.shown = filteredItems([b EXCEPT !.items = reversed]),
                  !.evaluations = @ + 1]

\* One evaluation of the filteredItems memo: its result is what the page lists.
\* A change of a dependency (items, searchQuery, filterType, filterCategory,
\* fuse) discards the result; evaluations counts the evaluations since then.
Evaluate(b) == [b EXCEPT !.shown = filteredItems(b), !.evaluations = @ + 1]

\* A render of the page evaluates the memo on the current state.
RenderFilteredItems ==
    /\ ~browse.loading
    /\ browse.evaluations < MaxEvaluations
    /\ browse' = Evaluate(browse)
    /\ call' = NoCall
    /\ UNCHANGED <<storeVars, admin, page, wizard, raw, home, dash>>

\* fetchItems (mount effect): getItems({ status: "approved" }), [] on an error;
\* the Fuse index is rebuilt over the fetched list.
fetchItems ==
    /\ browse.loading
    /\ \E err \in BOOLEAN :
          LET data == IF err THEN <<>>
                      ELSE getItems([type |-> Undefined, category |-> Undefined,
                                     status |-> "approved"])
          IN  \E idx \in [SearchedQueries -> Rankings(Len(data))] :
                 browse' = [browse EXCEPT !.items = data, !.loading = FALSE,
                                          !.fuse = idx,
                                          !.shown = <<>>, !.evaluations = 0]
    /\ call' = NoCall
    /\ UNCHANGED <<storeVars, admin, page, wizard, raw, home, dash>>

setSearchQuery ==
    /\ \E q \in BrowseQueries :
          browse' = [browse EXCEPT !.searchQuery = q,
                                   !.shown = <<>>, !.evaluations = 0]
    /\ call' = NoCall
    /\ UNCHANGED <<storeVars, admin, page, wizard, raw, home, dash>>

setFilterType ==
    /\ \E t \in BrowseFilterTypes :
          browse' = [browse EXCEPT !.filterType = t,
                                   !.shown = <<>>, !.evaluations = 0]
    /\ call' = NoCall
    /\ UNCHANGED <<storeVars, admin, page, wizard, raw, home, dash>>

setFilterCategory ==
    /\ \E c \in BrowseFilterCategories :
          browse' = [browse EXCEPT !.filterCategory = c,
                                   !.shown = <<>>, !.evaluations = 0]
    /\ call' = NoCall
    /\ UNCHANGED <<storeVars, admin, page, wizard, raw, home, dash>>

clearFilters ==
    /\ browse' = [browse EXCEPT !.filterType = "all", !.filterCategory = "all",
                                !.searchQuery = <<>>,
                                !.shown = <<>>, !.evaluations = 0]
    /\ call' = NoCall
    /\ UNCHANGED <<storeVars, admin, page, wizard, raw, home, dash>>

\* A store holding up to BrowseMaxItems reports, each pending or approved.
InitBrowse ==
    /\ \E n \in 0..BrowseMaxItems :
          \E f \in [1..n -> BrowseForms \X {"pending", "approved"}] :
             /\ items = [i \in 1..n |->
                           [(ItemRow(f[i][1], Null) @@ [id |-> i, created_at |-> i])
                               EXCEPT !.status = f[i][2]]]
             /\ nextItemId = n + 1
    /\ claims = EmptyTable
    /\ nextClaimId = 1
    /\ call = NoCall
    /\ admin = <<>>
    /\ page = <<>>
    /\ wizard = <<>>
    /\ raw = <<>>
    /\ browse = BrowseMounted
    /\ home = <<>>
    /\ dash = <<>>

NextBrowse ==
    \/ fetchItems
    \/ setSearchQuery
    \/ setFilterType
    \/ setFilterCategory
    \/ clearFilters
    \/ RenderFilteredItems

SpecBrowse == InitBrowse /\ [][NextBrowse]_vars

(***************************************************************************)
(* SpecPublic: the public pages (browse, home, item detail) reading a store *)
(* in which items are reported and an admin approves and returns them.      *)
(***************************************************************************)
PublicMaxItems == 2
RecentLimit == 6

HomeMounted == [recentItems |-> <<>>, stats |-> ZeroAnalytics, loading |-> TRUE]

\* Home page mount effect: getRecentItems(6) and getAnalytics together.
HomeFetchData ==
    /\ home.loading
    /\ home' = [recentItems |-> getRecentItems(RecentLimit), stats |-> getAnalytics,
                loading |-> FALSE]
    /\ call' = NoCall
    /\ UNCHANGED <<storeVars, admin, page, wizard, raw, browse, dash>>

\* A report is submitted through the wizard (a valid record, no image).
PublicReport ==
    /\ nextItemId <= PublicMaxItems
    /\ \E err \in BOOLEAN : createItem(BaseForm, Null, err)
    /\ UNCHANGED <<admin, page, wizard, raw, browse, home, dash>>

\* An admin's Approve or Mark Returned reaches the store.
PublicUpdateItemStatus ==
    /\ \E id \in DOMAIN items, status \in {"approved", "returned"} :
          updateItemStatus(id, status, FALSE)
    /\ UNCHANGED <<admin, page, wizard, raw, browse, home, dash>>

InitPublic ==
    /\ InitStore
    /\ admin = <<>>
    /\ page = PageClosed
    /\ wizard = <<>>
    /\ raw = <<>>
    /\ browse = BrowseMounted
    /\ home = HomeMounted
    /\ dash = <<>>

NextPublic ==
    \/ PublicReport
    \/ PublicUpdateItemStatus
    \/ fetchItems
    \/ HomeFetchData
    \/ OpenItemPage

SpecPublic == InitPublic /\ [][NextPublic]_vars

(***************************************************************************)
(* SpecAnswer: one raw security answer typed into the report form and into  *)
(* the claim form, validated by the form's resolver and, when it passes,    *)
(* handed to createItem / createClaim.                                      *)
(***************************************************************************)

\* The report form is submitted with the raw answer (or a plain one) in an
\* otherwise valid record: handleSubmit calls onSubmit, hence createItem, only
\* when the resolver (fullReportSchema) accepts the record.
AnswerSubmitReport ==
    /\ nextItemId = 1
    /\ \E a \in {raw, Str_Abc} :
          LET data == [BaseForm EXCEPT !.security_answer = a]
          IN  IF fullReportSchemaOk(data)
              THEN createItem(data, Null, FALSE)
              ELSE call' = NoCall /\ UNCHANGED storeVars
    /\ UNCHANGED <<admin, page, wizard, raw, browse, home, dash>>

\* An admin approves the reported item, which makes the claim form available.
AnswerApproveItem ==
    /\ 1 \in DOMAIN items
    /\ items[1].status = "pending"
    /\ updateItemStatus(1, "approved", FALSE)
    /\ UNCHANGED <<admin, page, wizard, raw, browse, home, dash>>

\* The claim form of the approved item is submitted with the raw answer:
\* handleSubmit calls onSubmit, hence createClaim, only when the resolver
\* (claimSchema) accepts the data.
AnswerSubmitClaim ==
    /\ 1 \in DOMAIN items
    /\ items[1].status = "approved"
    /\ nextClaimId = 1
    /\ LET data == [claimant_name |-> Str_name, claimant_email |-> Str_email,
                    security_answer |-> raw]
       IN  IF claimSchemaOk(data)
           THEN createClaim(data @@ [item_id |-> 1], FALSE)
           ELSE call' = NoCall /\ UNCHANGED storeVars
    /\ UNCHANGED <<admin, page, wizard, raw, browse, home, dash>>

InitAnswer ==
    /\ InitStore
    /\ admin = <<>>
    /\ page = <<>>
    /\ wizard = <<>>
    /\ raw \in NormStrings
    /\ browse = <<>>
    /\ home = <<>>
    /\ dash = <<>>

NextAnswer ==
    \/ AnswerSubmitReport
    \/ AnswerApproveItem
    \/ AnswerSubmitClaim

SpecAnswer == InitAnswer /\ [][NextAnswer]_vars

(***************************************************************************)
(* SpecSession: one admin dashboard session with its handlers as the code   *)
(* runs them: a click starts a handler, whose store update and whose        *)
(* fetchData are awaited while the page stays live, so that several         *)
(* handlers can be in flight.  fetchData issues its queries together        *)
(* (Promise.all); each is answered by the store at its own moment, and the  *)
(* state is set when all have been answered.  No one else writes, and the  *)
(* queries of one fetchData are answered at the same moment.                *)
(***************************************************************************)
DashItems == 2
DashClaims == 1
MaxInFlight == 2

\* The queries of one fetchData: getAllItems, getAllClaims, and the two of
\* getAnalytics (items: type, status; claims: id).
Queries == {"getAllItems", "getAllClaims", "analyticsItems", "analyticsClaims"}

\* A handler in flight: what was clicked, where it stands (its store update
\* awaited, or its fetchData), and what the queries of its fetchData answered.
Thread(kind, entity, pc) ==
    [kind |-> kind, entity |-> entity, pc |-> pc, done |-> {},
     data |-> [items |-> <<>>, claims |-> <<>>, analytics |-> ZeroAnalytics]]

\* useState initial values of AdminDashboard; the mount effect has called fetchData.
DashMounted ==
    [items |-> <<>>, claims |-> <<>>, analytics |-> ZeroAnalytics,
     loading |-> TRUE, actionLoading |-> NoEntity,
     threads |-> <<Thread("mount", NoEntity, "fetch")>>]

DashShownItems == {dash.items[k] : k \in 1..Len(dash.items)}
DashShownClaims == {dash.claims[k] : k \in 1..Len(dash.claims)}

\* A button can be clicked: the tables are rendered (not the loader) and the
\* button is not disabled.
DashCanClick(entity) ==
    /\ ~dash.loading
    /\ dash.actionLoading # entity
    /\ Len(dash.threads) < MaxInFlight

\* The click: setActionLoading(id), then the store update is awaited.
DashStart(kind, entity) ==
    /\ dash' = [dash EXCEPT !.actionLoading = entity,
                            !.threads = Append(@, Thread(kind, entity, "update"))]
    /\ call' = NoCall
    /\ UNCHANGED <<storeVars, admin, page, wizard, raw, browse, home>>

DashClickApprove ==
    \E row \in DashShownItems :
        /\ row.status = "pending"
        /\ DashCanClick(<<"item", row.id>>)
        /\ DashStart("approve", <<"item", row.id>>)

DashClickReturn ==
    \E row \in DashShownItems :
        /\ row.status = "approved"
        /\ DashCanClick(<<"item", row.id>>)
        /\ DashStart("return", <<"item", row.id>>)

DashClickDelete ==
    \E row \in DashShownItems :
        /\ DashCanClick(<<"item", row.id>>)
        /\ DashStart("delete", <<"item", row.id>>)

DashClickClaimAction ==
    \E row \in DashShownClaims, status \in {"approved", "denied"} :
        /\ row.status = "pending"
        /\ DashCanClick(<<"claim", row.id>>)
        /\ DashStart(status, <<"claim", row.id>>)

\* The store update of a handler.
DashStoreCall(t, err) ==
    CASE t.kind = "approve" -> updateItemStatus(t.entity[2], "approved", err)
      [] t.kind = "return" -> updateItemStatus(t.entity[2], "returned", err)
      [] t.kind = "delete" -> deleteItem(t.entity[2], err)
      [] t.kind \in {"approved", "denied"} -> updateClaimStatus(t.entity[2], t.kind, err)

\* The awaited store update completes (whatever it returns) and the handler
\* calls fetchData, which sets loading and issues its queries.
DashAwaitUpdate(k) ==
    /\ k \in DOMAIN dash.threads
    /\ dash.threads[k].pc = "update"
    /\ \E err \in BOOLEAN : DashStoreCall(dash.threads[k], err)
    /\ dash' = [dash EXCEPT !.loading = TRUE, !.threads[k].pc = "fetch"]
    /\ UNCHANGED <<admin, page, wizard, raw, browse, home>>

\* What a fetchData holds once query q is answered from the store as it is now.
Answered(d, q) ==
    CASE q = "getAllItems" -> [d EXCEPT !.items = getAllItems]
      [] q = "getAllClaims" -> [d EXCEPT !.claims = getAllClaims]
      [] q = "analyticsItems" ->
            [d EXCEPT !.analytics =
                [getAnalytics EXCEPT !.totalClaims = d.analytics.totalClaims]]
      [] q = "analyticsClaims" ->
            [d EXCEPT !.analytics.totalClaims = getAnalytics.totalClaims]

\* One query of a fetchData is answered.
DashQuery(k, q) ==
    /\ k \in DOMAIN dash.threads
    /\ dash.threads[k].pc = "fetch"
    /\ q \notin dash.threads[k].done
    /\ dash' = [dash EXCEPT !.threads[k].done = @ \cup {q},
                            !.threads[k].data = Answered(@, q)]
    /\ call' = NoCall
    /\ UNCHANGED <<storeVars, admin, page, wizard, raw, browse, home>>

\* The queries of a fetchData are all answered at the same moment.
DashQueryAll(k) ==
    /\ k \in DOMAIN dash.threads
    /\ dash.threads[k].pc = "fetch"
    /\ dash.threads[k].done = {}
    /\ dash' = [dash EXCEPT
                   !.threads[k].done = Queries,
                   !.threads[k].data =
                       Answered(Answered(Answered(Answered(@, "getAllItems"),
                                                  "getAllClaims"),
                                         "analyticsItems"),
                                "analyticsClaims")]
    /\ call' = NoCall
    /\ UNCHANGED <<storeVars, admin, page, wizard, raw, browse, home>>

\* A sequence without its k-th element.
RemoveAt(seq, k) ==
    [j \in 1..(Len(seq) - 1) |-> IF j < k THEN seq[j] ELSE seq[j + 1]]

\* All queries of a fetchData are answered: setItems, setClaims, setAnalytics,
\* setLoading(false); the handler that awaited it then calls setActionLoading(null).
DashFetched(k) ==
    /\ k \in DOMAIN dash.threads
    /\ dash.threads[k].pc = "fetch"
    /\ dash.threads[k].done = Queries
    /\ dash' = [items |-> dash.threads[k].data.items,
                claims |-> dash.threads[k].data.claims,
                analytics |-> dash.threads[k].data.analytics,
                loading |-> FALSE,
                actionLoading |-> IF dash.threads[k].kind = "mount"
                                  THEN dash.actionLoading ELSE NoEntity,
                threads |-> RemoveAt(dash.threads, k)]
    /\ call' = NoCall
    /\ UNCHANGED <<storeVars, admin, page, wizard, raw, browse, home>>

\* A store of DashItems pending reports and DashClaims pending claims on the
\* first of them.
DashStore ==
    /\ items = [i \in 1..DashItems |->
                  ItemRow(BaseForm, Null) @@ [id |-> i, created_at |-> i]]
    /\ nextItemId = DashItems + 1
    /\ claims = [c \in 1..DashClaims |->
                   ClaimRow([item_id |-> 1, claimant_name |-> Str_name,
                             claimant_email |-> Str_email,
                             security_answer |-> Str_sABCs])
                     @@ [id |-> c, created_at |-> c]]
    /\ nextClaimId = DashClaims + 1
    /\ call = NoCall

InitSession ==
    /\ DashStore
    /\ admin = <<>>
    /\ page = <<>>
    /\ wizard = <<>>
    /\ raw = <<>>
    /\ browse = <<>>
    /\ home = <<>>
    /\ dash = DashMounted

NextSession ==
    \/ DashClickApprove
    \/ DashClickReturn
    \/ DashClickDelete
    \/ DashClickClaimAction
    \/ \E k \in 1..MaxInFlight :
          \/ DashAwaitUpdate(k)
          \/ DashQueryAll(k)
          \/ DashFetched(k)

SpecSession == InitSession /\ [][NextSession]_vars

(***************************************************************************)
(* SpecRefresh: the first fetchData of a dashboard session, its queries     *)
(* answered one by one, while other sessions report items, delete items     *)
(* and make claims.                                                         *)
(***************************************************************************)
RefreshMaxItems == 3
RefreshMaxClaims == 2

\* Another session submits a report.
RefreshCreateItem ==
    /\ nextItemId <= RefreshMaxItems
    /\ createItem(BaseForm, Null, FALSE)
    /\ UNCHANGED <<admin, page, wizard, raw, browse, home, dash>>

\* Another admin session deletes an item (and, by the cascade, its claims).
RefreshDeleteItem ==
    /\ \E id \in DOMAIN items : deleteItem(id, FALSE)
    /\ UNCHANGED <<admin, page, wizard, raw, browse, home, dash>>

\* Another session makes a claim on an item.
RefreshCreateClaim ==
    /\ nextClaimId <= RefreshMaxClaims
    /\ \E i \in DOMAIN items :
          createClaim([item_id |-> i, claimant_name |-> Str_name,
                       claimant_email |-> Str_email, security_answer |-> Str_sABCs],
                      FALSE)
    /\ UNCHANGED <<admin, page, wizard, raw, browse, home, dash>>

NextRefresh ==
    \/ RefreshCreateItem
    \/ RefreshDeleteItem
    \/ RefreshCreateClaim
    \/ \E q \in Queries : DashQuery(1, q)
    \/ DashFetched(1)

SpecRefresh == InitSession /\ [][NextRefresh]_vars

(***************************************************************************)
(* SpecApprove: the admin dashboard sessions, opened on a store of pending  *)
(* reports, approving items: the same item can be approved from several     *)
(* sessions, their clicks, store updates and refreshes interleaved.         *)
(***************************************************************************)
InitApprove ==
    /\ DashStore
    /\ admin = [s \in Admins |-> DashboardMounted]
    /\ page = <<>>
    /\ wizard = <<>>
    /\ raw = <<>>
    /\ browse = <<>>
    /\ home = <<>>
    /\ dash = <<>>

NextApprove ==
    \E s \in Admins :
        \/ FetchData(s)
        \/ ClickApprove(s)
        \/ handleApprove(s)

SpecApprove == InitApprove /\ [][NextApprove]_vars

(***************************************************************************)
(* Properties.                                                             *)
(***************************************************************************)
StatusRank(st) == CASE st = "pending" -> 0 [] st = "approved" -> 1 [] st = "returned" -> 2

TerminalClaim(st) == st \in {"approved", "denied"}

\* The latest step was a call of function op that the store carried out.
Called(c, op) == c.op = op /\ c.ok

\* C1: an item's stored status never regresses, whatever admin sessions do from
\* their (possibly stale) lists: no step takes an item from approved back to
\* pending, or from returned back to approved or pending.
C1_StatusNeverRegresses ==
    [][\A i \in DOMAIN items \cap DOMAIN items' :
          StatusRank(items'[i].status) >= StatusRank(items[i].status)]_vars

\* C2: once a claim is approved or denied its status never changes again, and an
\* approve/deny call on such a claim is rejected (does not report success).
C2_ClaimTerminal ==
    [][/\ \A c \in DOMAIN claims \cap DOMAIN claims' :
             TerminalClaim(claims[c].status) => claims'[c].status = claims[c].status
       /\ ~(/\ Called(call', "updateClaimStatus")
            /\ call'.id \in DOMAIN claims
            /\ TerminalClaim(claims[call'.id].status))]_vars

\* C3: every claim is inserted while the item it references is stored as approved.
C3_ClaimOnlyOnApproved ==
    [][\A c \in DOMAIN claims' \ DOMAIN claims :
          /\ claims'[c].item_id \in DOMAIN items
          /\ items[claims'[c].item_id].status = "approved"]_vars

\* C4: after a successful deleteItem(X) no claim with item_id = X is left, and the
\* claims of other items are as they were.
C4_DeleteCascades ==
    [][Called(call', "deleteItem") =>
          /\ \A c \in DOMAIN claims' : claims'[c].item_id # call'.id
          /\ \A c \in DOMAIN claims :
                claims[c].item_id # call'.id =>
                    c \in DOMAIN claims' /\ claims'[c] = claims[c]]_vars

\* C4 witness: the only item ever created had both claims ever created, and its
\* deletion has just succeeded, leaving no claim.
C4_Witness ==
    /\ Called(call, "deleteItem")
    /\ call.id = 1
    /\ nextItemId = 2
    /\ nextClaimId = 3
    /\ items = EmptyTable
    /\ claims = EmptyTable

\* C5: approving (updateItemStatus(id, "approved")) an item stored as approved or
\* returned is rejected: the call does not report success, the status is unchanged.
C5_ApproveOnlyFromPending ==
    [][~(/\ Called(call', "updateItemStatus")
         /\ call'.arg = "approved"
         /\ call'.id \in DOMAIN items
         /\ items[call'.id].status \in {"approved", "returned"})]_vars

\* C6: marking returned (updateItemStatus(id, "returned")) takes effect only on an
\* item stored as approved: no item goes from pending to returned in one step, and
\* such a call on a pending item does not report success.
C6_ReturnOnlyFromApproved ==
    [][/\ \A i \in DOMAIN items \cap DOMAIN items' :
             items[i].status = "pending" => items'[i].status # "returned"
       /\ ~(/\ Called(call', "updateItemStatus")
            /\ call'.arg = "returned"
            /\ call'.id \in DOMAIN items
            /\ items[call'.id].status = "pending")]_vars

\* C7: every item createItem inserts is stored as pending, whatever the caller's
\* record carries.
C7_CreatedPending ==
    [][\A i \in DOMAIN items' \ DOMAIN items :
          Called(call', "createItem") /\ call'.id = i /\ items'[i].status = "pending"]_vars

\* C7 witness: createItem was handed a record carrying status approved and the
\* item it inserted is there.
C7_Witness ==
    /\ Called(call, "createItem")
    /\ call.arg = "approved"
    /\ call.id \in DOMAIN items

\* C8: createClaim stores a claim as pending (also when its normalized answer
\* equals the item's), and a claim's status changes only in a successful
\* updateClaimStatus call on that claim, to the status the call names.
C8_ClaimApprovedOnlyByAdmin ==
    [][\A c \in DOMAIN claims' :
          /\ c \notin DOMAIN claims =>
                Called(call', "createClaim") /\ claims'[c].status = "pending"
          /\ c \in DOMAIN claims /\ claims'[c].status # claims[c].status =>
                /\ Called(call', "updateClaimStatus")
                /\ call'.id = c
                /\ call'.arg = claims'[c].status]_vars

\* C8 witness: createClaim has just stored a claim whose answer equals the stored
\* answer of its item.
C8_Witness ==
    /\ Called(call, "createClaim")
    /\ call.id \in DOMAIN claims
    /\ claims[call.id].item_id \in DOMAIN items
    /\ claims[call.id].security_answer = items[claims[call.id].item_id].security_answer

\* The constraints of stages 1, 2 and 4 together.
AllStagesOk(v) == reportStep1SchemaOk(v) /\ reportStep2SchemaOk(v) /\ reportStep4SchemaOk(v)

\* C9: the report wizard issues uploadImage and createItem only for a record
\* that satisfies the constraints of stages 1, 2 and 4 together, and the item
\* inserted carries that record: a submit with any invalid field starts no
\* submission, makes no call and inserts nothing.
C9_OnlyValidRecordsSubmitted ==
    [][/\ call'.op \in {"uploadImage", "createItem"} => AllStagesOk(wizard.data)
       /\ \A i \in DOMAIN items' \ DOMAIN items :
             /\ call'.op = "createItem"
             /\ AllStagesOk(wizard.data)
             /\ \A f \in DOMAIN wizard.data \ {"security_answer"} :
                   items'[i][f] = wizard.data[f]
       /\ (wizard.pc = "idle" /\ ~AllStagesOk(wizard.values)) =>
             /\ wizard'.pc = "idle"
             /\ call' = NoCall
             /\ items' = items]_vars

\* A report with a photo went through: uploadImage, then createItem stored it.
C9_Witness ==
    /\ wizard.pc = "navigated"
    /\ Called(call, "createItem")
    /\ call.id \in DOMAIN items
    /\ items[call.id].image_url = Str_url
    /\ items[call.id].contact_email = Str_email

\* At the last step with a malformed contact_email, Submit was pressed: nothing
\* was inserted and no submission is running.
C9_WitnessBlocked ==
    /\ wizard.submitted = "invalid"
    /\ wizard.currentStep = 3
    /\ wizard.values.contact_email = Str_notEmail
    /\ wizard.pc = "idle"
    /\ items = EmptyTable

\* C10: normalization of the security answer is idempotent (the stored answer,
\* submitted again, is stored unchanged), maps " ABC " to "abc", and is the same
\* at item creation and at claim creation: one raw answer passed to createItem
\* and to createClaim is stored as the same string.
C10_Normalization ==
    /\ \A c \in DOMAIN claims :
          /\ claims[c].item_id \in DOMAIN items
          /\ claims[c].security_answer = items[claims[c].item_id].security_answer
    /\ raw = Str_sABCs =>
          /\ \A i \in DOMAIN items : items[i].security_answer = Str_abc
          /\ \A c \in DOMAIN claims : claims[c].security_answer = Str_abc

\* " ABC " went through createItem, createClaim, and createClaim once more from
\* the stored answer, and "abc" is what is stored.
C10_Witness ==
    /\ raw = Str_sABCs
    /\ DOMAIN items = {1}
    /\ DOMAIN claims = {1, 2}
    /\ items[1].security_answer = Str_abc
    /\ claims[2].security_answer = Str_abc

\* The page's result with both filters switched off: the query-only result.
QueryOnly(b) == filteredItems([b EXCEPT !.filterType = "all", !.filterCategory = "all"])

PassesFilters(item, b) ==
    /\ b.filterType # "all" => item.type = b.filterType
    /\ b.filterCategory # "all" => item.category = b.filterCategory

\* C11: for a non-empty query and any filters, the browse result is the
\* query-only result with the items failing the filters removed, in the same
\* relative order, and the type filter and the category filter give the same
\* sequence applied in either order.
C11_FilterAfterRanking ==
    Len(browse.searchQuery) > 0 =>
       /\ filteredItems(browse) =
             SelectSeq(QueryOnly(browse), LAMBDA item : PassesFilters(item, browse))
       /\ \A t \in ItemType, c \in ItemCategory :
             FilterByCategory(FilterByType(QueryOnly(browse), t), c) =
                FilterByType(FilterByCategory(QueryOnly(browse), c), t)

\* A search ranks an older item above a newer one, a third item is ranked
\* first, and both filters are active: the first item is filtered out and the
\* two survivors are shown in rank order, not in store order.
C11_Witness ==
    /\ ~browse.loading
    /\ browse.searchQuery = Str_abc
    /\ browse.filterType = "lost"
    /\ browse.filterCategory = "electronics"
    /\ Len(QueryOnly(browse)) = 3
    /\ Len(filteredItems(browse)) = 2
    /\ filteredItems(browse)[1].created_at < filteredItems(browse)[2].created_at
    /\ QueryOnly(browse)[1].type = "found"

\* C12: with an empty query the browse result is the fetched collection
\* restricted to the items matching the active filters, in store order
\* (created_at descending); with no filter active it is the fetched collection.
C12_FilterOnlyKeepsStoreOrder ==
    browse.searchQuery = <<>> =>
       /\ filteredItems(browse) =
             SelectSeq(browse.items, LAMBDA item : PassesFilters(item, browse))
       /\ \A j, k \in DOMAIN filteredItems(browse) :
             j < k => filteredItems(browse)[j].created_at > filteredItems(browse)[k].created_at
       /\ (browse.filterType = "all" /\ browse.filterCategory = "all") =>
             filteredItems(browse) = browse.items

\* Three approved items were fetched, the query is empty, the type filter is
\* active and drops one of them.
C12_Witness ==
    /\ ~browse.loading
    /\ browse.searchQuery = <<>>
    /\ browse.filterType = "lost"
    /\ Len(browse.items) = 3
    /\ Len(filteredItems(browse)) = 2

\* C13: on a report submission with an attached image the upload has completed
\* before createItem is issued, and the image_url handed to createItem is the
\* uploaded public URL if the upload succeeded, and null if no image was
\* attached or the upload failed.
C13_UploadBeforeCreate ==
    [][/\ (wizard.pc = "idle" /\ wizard'.pc # "idle") =>
             /\ call' = NoCall
             /\ wizard.selectedFile => wizard'.pc = "uploadImage"
             /\ ~wizard.selectedFile => wizard'.pc = "createItem" /\ wizard'.imageUrl = Null
       /\ call'.op = "uploadImage" =>
             /\ wizard.pc = "uploadImage"
             /\ wizard'.pc = "createItem"
             /\ items' = items
             /\ wizard'.imageUrl = IF call'.ok THEN Str_url ELSE Null
       /\ (wizard.pc = "createItem" /\ wizard'.pc = "createItem") =>
             wizard'.imageUrl = wizard.imageUrl
       /\ call'.op = "createItem" =>
             /\ wizard.pc = "createItem"
             /\ call'.ok => items'[call'.id].image_url = wizard.imageUrl]_vars

\* The upload of an attached image has just succeeded: the URL is held for
\* createItem, which has not been issued yet.
C13_Witness ==
    /\ Called(call, "uploadImage")
    /\ wizard.pc = "createItem"
    /\ wizard.imageUrl = Str_url
    /\ items = EmptyTable

\* What the wizard shows of a submission: the step, the spinner, the message.
WizardShown(w) ==
    [currentStep |-> w.currentStep, isSubmitting |-> w.isSubmitting,
     submitError |-> w.submitError]

\* C14: when the image upload of a report submission fails, the submission
\* goes on to create the item with image_url null, and the failure is shown to
\* the user (as a warning, the submission itself not failing).
C14_UploadFailureSurfaced ==
    [][(call'.op = "uploadImage" /\ ~call'.ok) =>
          /\ wizard'.pc = "createItem"
          /\ wizard'.imageUrl = Null
          /\ WizardShown(wizard') # WizardShown(wizard)]_vars

\* The handlers of the dashboard that change the store, by the kind of their task.
MutationKinds == {"approve", "return", "delete", "approved", "denied"}

\* How a handler goes on after a store update that succeeded: fetchData.
AfterSuccess(a) == [a EXCEPT !.task = [kind |-> "fetch"], !.loading = TRUE]

\* C15: when the store update behind an admin action fails (the function
\* reports an error), the dashboard does not go on as after a success (the
\* failure is presented), and the update is not issued again by itself.
C15_FailurePresented ==
    [][\A s \in Admins :
          (/\ admin[s].task.kind \in MutationKinds
           /\ admin'[s] # admin[s]
           /\ call'.op \in {"updateItemStatus", "deleteItem", "updateClaimStatus"}
           /\ ~call'.ok) =>
             /\ admin'[s].task.kind \notin MutationKinds
             /\ admin'[s] # AfterSuccess(admin[s])]_vars

\* C16: a status update or a delete called with an identifier that matches no
\* entity of the store (never created, or already deleted) does not report
\* success, and leaves the store unchanged.
C16_NotFoundReported ==
    [][/\ (call'.op \in {"updateItemStatus", "deleteItem"} /\ call'.ok) =>
             call'.id \in DOMAIN items
       /\ (call'.op = "updateClaimStatus" /\ call'.ok) =>
             call'.id \in DOMAIN claims]_vars

\* C17: createClaim with an item_id that matches no item of the store fails,
\* leaving the claims unchanged, and every stored claim references an existing
\* item.
C17_ClaimNeedsItem ==
    [][/\ (call'.op = "createClaim" /\ call'.ok) => call'.arg \in DOMAIN items
       /\ (call'.op = "createClaim" /\ ~call'.ok) => claims' = claims
       /\ \A c \in DOMAIN claims' : claims'[c].item_id \in DOMAIN items']_vars

\* createClaim has just failed in a store whose only item was deleted, and no
\* claim is stored.
C17_Witness ==
    /\ call.op = "createClaim"
    /\ ~call.ok
    /\ nextItemId = 2
    /\ items = EmptyTable
    /\ claims = EmptyTable

\* C18: createClaim called with the id of an existing item whose status is
\* pending is not rejected: it succeeds and stores a new claim with status
\* pending on that item.
C18_ClaimOnPendingItemAccepted ==
    [][call'.op = "createClaim" =>
       \A d \in ApiClaimData :
          (/\ d.item_id \in DOMAIN items
           /\ items[d.item_id].status = "pending"
           /\ createClaim(d, FALSE)) =>
             /\ Called(call', "createClaim")
             /\ call'.id \in DOMAIN claims' \ DOMAIN claims
             /\ claims'[call'.id].status = "pending"
             /\ claims'[call'.id].item_id = d.item_id]_vars

\* A claim has just been created, pending, on an item that is pending.
C18_Witness ==
    /\ Called(call, "createClaim")
    /\ call.id \in DOMAIN claims
    /\ claims[call.id].status = "pending"
    /\ call.arg \in DOMAIN items
    /\ items[call.arg].status = "pending"

\* C19: report validation accepts a description iff it has 10 to 500
\* characters (5 is rejected, 10 accepted), a title iff 3 to 100 characters, a
\* security answer iff 3 to 200 characters, rejects the contact_email
\* "not-an-email" and accepts "a@b.edu".
C19_ReportFieldLimits ==
    LET v == wizard.values
        titleOk == Len(v.title) \in 3..100
        descriptionOk == Len(v.description) \in 10..500
        answerOk == Len(v.security_answer) \in 3..200
        emailOk == v.contact_email = Str_email
    IN  /\ wizard.result.stage1 # "none" => (wizard.result.stage1 = "accepted" <=> titleOk)
        /\ wizard.result.stage2 # "none" => (wizard.result.stage2 = "accepted" <=> descriptionOk)
        /\ wizard.result.stage4 # "none" =>
              (wizard.result.stage4 = "accepted" <=> (emailOk /\ answerOk))
        /\ wizard.result.full # "none" =>
              (wizard.result.full = "accepted" <=>
                  (titleOk /\ descriptionOk /\ emailOk /\ answerOk))
        /\ (wizard.result.full # "none" /\ Len(v.description) = 5) =>
              wizard.result.full = "rejected"
        /\ (wizard.result.full # "none" /\ v.contact_email = Str_notEmail) =>
              wizard.result.full = "rejected"

\* A record with a description of exactly 10 characters, a title of 100, an
\* answer of 200 and the email a@b.edu was validated stage by stage and as a
\* whole, and accepted.
C19_Witness ==
    /\ Len(wizard.values.description) = 10
    /\ Len(wizard.values.title) = 100
    /\ Len(wizard.values.security_answer) = 200
    /\ wizard.values.contact_email = Str_email
    /\ wizard.result.stage2 = "accepted"
    /\ wizard.result.stage4 = "accepted"
    /\ wizard.result.full = "accepted"

\* The item with this id is pending in the store.
IsPending(id) == id \in DOMAIN items /\ items[id].status = "pending"

\* No row of a fetched list is a pending item, as fetched or as stored now.
NoPendingIn(list) ==
    \A k \in DOMAIN list : list[k].status # "pending" /\ ~IsPending(list[k].id)

ItemsOfStatus(st) == Cardinality({i \in DOMAIN items : items[i].status = st})
ItemsOfType(ty) == Cardinality({i \in DOMAIN items : items[i].type = ty})

\* C21: getAnalytics returns counts equal to those of the current collections:
\* the total of items, the items of type lost and of type found, the items of
\* each status (pending, approved, returned), and the total of claims.
C21_AnalyticsCounts ==
    LET r == getAnalytics
    IN  /\ r.totalItems = Cardinality(DOMAIN items)
        /\ r.lostItems = ItemsOfType("lost")
        /\ r.foundItems = ItemsOfType("found")
        /\ r.pendingItems = ItemsOfStatus("pending")
        /\ r.returnedItems = ItemsOfStatus("returned")
        /\ r.totalClaims = Cardinality(DOMAIN claims)
        /\ "approvedItems" \in DOMAIN r
        /\ r.approvedItems = ItemsOfStatus("approved")

\* The counts getAnalytics does return equal those of the current collections.
C21_ReturnedCountsExact ==
    LET r == getAnalytics
    IN  /\ DOMAIN r = {"totalItems", "lostItems", "foundItems", "returnedItems",
                       "pendingItems", "totalClaims"}
        /\ r.totalItems = Cardinality(DOMAIN items)
        /\ r.lostItems = ItemsOfType("lost")
        /\ r.foundItems = ItemsOfType("found")
        /\ r.pendingItems = ItemsOfStatus("pending")
        /\ r.returnedItems = ItemsOfStatus("returned")
        /\ r.totalClaims = Cardinality(DOMAIN claims)

\* The inputs of the browse pipeline: the fetched list with its index, the
\* query and the two filters.
PipelineInputs(b) == <<b.items, b.fuse, b.searchQuery, b.filterType, b.filterCategory>>

FieldValid(f, x) ==
    CASE f = "type" -> x \in {"lost", "found"}
      [] f = "category" -> x \in ItemCategory
      [] f = "title" -> Len(x) >= 3 /\ Len(x) <= 100
      [] f \in {"date_occurred", "time_occurred", "location"} -> Len(x) >= 1
      [] f = "description" -> Len(x) >= 10 /\ Len(x) <= 500
      [] f = "contact_email" -> IsEmail(x)
      [] f = "security_answer" -> Len(x) >= 3 /\ Len(x) <= 200

\* The fields of stage n (0..3) of the wizard are valid, whatever the others.
StageFieldsValid(v, n) == \A f \in fieldsPerStep[n + 1] : FieldValid(f, v[f])

\* C23: Next from stage N moves to stage N+1 if and only if the fields of
\* stage N alone are valid, whatever the fields of the later stages hold; the
\* photo stage always moves on; when stage N is invalid the stage (and the
\* record) stay as they are.
C23_NextGatedByOwnStage ==
    (WizardOpen /\ wizard.currentStep < 3) =>
        LET n == wizard.currentStep
            target == IF n = 2 \/ StageFieldsValid(wizard.values, n) THEN n + 1 ELSE n
        IN  /\ ENABLED (/\ handleNext
                        /\ wizard'.currentStep = target
                        /\ wizard'.values = wizard.values)
            /\ ~ENABLED (handleNext /\ wizard'.currentStep # target)

\* The wizard has reached the last stage by Next from the three stages before
\* it, while the fields of the last stage are still empty.
C23_Witness ==
    /\ WizardOpen
    /\ wizard.currentStep = 3
    /\ wizard.values.contact_email = <<>>
    /\ wizard.values.security_answer = <<>>
    /\ StageFieldsValid(wizard.values, 0)
    /\ StageFieldsValid(wizard.values, 1)

\* The wizard is at a stage whose fields are invalid while those of every
\* other stage are valid: Next is refused there.
C23_WitnessBlocked ==
    /\ WizardOpen
    /\ wizard.currentStep = 1
    /\ ~StageFieldsValid(wizard.values, 1)
    /\ StageFieldsValid(wizard.values, 0)
    /\ StageFieldsValid(wizard.values, 3)

\* The fields of a report, those of the four stages together.
ReportFields == UNION {fieldsPerStep[k] : k \in 1..4}

\* C27: the wizard's currentStep stays within 0..3, and at step k the fields
\* of every stage before k satisfy their constraints: a stage is left forward
\* only with its own fields valid, Back changes no field value, and only fields
\* of the current stage are edited.
C27_EarlierStagesValid ==
    /\ [](/\ wizard.currentStep \in 0..3
          /\ \A j \in 0..(wizard.currentStep - 1) : StageFieldsValid(wizard.values, j))
    /\ [][/\ wizard'.currentStep > wizard.currentStep =>
                /\ wizard'.currentStep = wizard.currentStep + 1
                /\ StageFieldsValid(wizard.values, wizard.currentStep)
                /\ wizard'.values = wizard.values
          /\ wizard'.currentStep < wizard.currentStep =>
                /\ wizard'.currentStep = wizard.currentStep - 1
                /\ wizard'.values = wizard.values
          /\ \A f \in ReportFields :
                wizard'.values[f] # wizard.values[f] =>
                   /\ f \in fieldsPerStep[wizard.currentStep + 1]
                   /\ wizard'.currentStep = wizard.currentStep]_vars

\* The wizard is back at the photo step, with a file selected, after the last
\* stage was filled in: the fields of all stages are valid.
C27_Witness ==
    /\ WizardOpen
    /\ wizard.currentStep = 2
    /\ wizard.selectedFile
    /\ \A j \in 0..3 : StageFieldsValid(wizard.values, j)

\* Row id of table next is row id of table prev with nothing but the status
\* (possibly) changed, and every other row of prev is in next as it was.
OnlyStatusOf(prev, next, id) ==
    /\ DOMAIN next = DOMAIN prev
    /\ \A i \in DOMAIN prev :
          IF i = id
          THEN /\ DOMAIN next[i] = DOMAIN prev[i]
               /\ \A f \in DOMAIN prev[i] \ {"status"} : next[i][f] = prev[i][f]
          ELSE next[i] = prev[i]

\* C25: updateItemStatus changes only the status of the item it addresses: the
\* item's other attributes (id, type, created_at, ...), the other items and all
\* claims stay as they were; updateClaimStatus likewise changes only the
\* status of the claim it addresses.
C25_StatusUpdateFrame ==
    [][/\ Called(call', "updateItemStatus") =>
             /\ OnlyStatusOf(items, items', call'.id)
             /\ call'.id \in DOMAIN items => items'[call'.id].status = call'.arg
             /\ claims' = claims
             /\ nextItemId' = nextItemId /\ nextClaimId' = nextClaimId
       /\ Called(call', "updateClaimStatus") =>
             /\ OnlyStatusOf(claims, claims', call'.id)
             /\ call'.id \in DOMAIN claims => claims'[call'.id].status = call'.arg
             /\ items' = items
             /\ nextItemId' = nextItemId /\ nextClaimId' = nextClaimId]_vars

\* updateItemStatus has just set the status of one of two stored items, the
\* other item has another status, and a claim is stored.
C25_Witness ==
    /\ Called(call, "updateItemStatus")
    /\ DOMAIN items = {1, 2}
    /\ call.id \in DOMAIN items
    /\ items[call.id].status = call.arg
    /\ \E i \in DOMAIN items : items[i].status # call.arg
    /\ claims # EmptyTable

\* updateClaimStatus has just set the status of one of two stored claims, the
\* other claim being still pending.
C25_WitnessClaim ==
    /\ Called(call, "updateClaimStatus")
    /\ DOMAIN claims = {1, 2}
    /\ call.id \in DOMAIN claims
    /\ claims[call.id].status = call.arg
    /\ \E c \in DOMAIN claims : claims[c].status = "pending"

\* C28: every security answer stored for an item reported through the report
\* form has, as stored (normalized), between 3 and 200 characters, and every
\* security answer stored for a claim made through the claim form is not
\* empty.
C28_StoredAnswerLength ==
    /\ \A i \in DOMAIN items :
          /\ Len(items[i].security_answer) >= 3
          /\ Len(items[i].security_answer) <= 200
    /\ \A c \in DOMAIN claims : Len(claims[c].security_answer) >= 1

\* C26: when two admin sessions both approve the same pending item, however
\* their store calls interleave, the item ends approved and the approval that
\* comes second is a no-op: it leaves the store as the first approval left it.
C26_SecondApprovalNoOp ==
    [][\A s \in Admins :
          (/\ admin[s].task.kind = "approve"
           /\ admin'[s].task.kind = "fetch"
           /\ Called(call', "updateItemStatus")
           /\ admin[s].task.id \in DOMAIN items) =>
             /\ items'[admin[s].task.id].status = "approved"
             /\ items[admin[s].task.id].status = "approved" =>
                   /\ items' = items
                   /\ claims' = claims
                   /\ nextItemId' = nextItemId
                   /\ nextClaimId' = nextClaimId]_vars

\* Two sessions have approved the same item: one did so and its dashboard,
\* refreshed since, shows the item approved; the other, whose dashboard still
\* shows the item pending, has just had its own approval carried out.
C26_Witness ==
    /\ Called(call, "updateItemStatus")
    /\ call.arg = "approved"
    /\ call.id \in DOMAIN items
    /\ items[call.id].status = "approved"
    /\ \E a, b \in Admins :
          /\ a # b
          /\ admin[a].task = NoTask
          /\ ~admin[a].loading
          /\ \E row \in ShownItems(a) : row.id = call.id /\ row.status = "approved"
          /\ admin[b].task.kind = "fetch"
          /\ admin[b].actionLoading = <<"item", call.id>>
          /\ \E row \in ShownItems(b) : row.id = call.id /\ row.status = "pending"

\* C24: in one dashboard session with no other writer, however the admin's
\* actions and the refreshes they trigger interleave, a refresh reads nothing
\* before its own mutation has completed, and once no action and no refresh is
\* in flight the displayed items, claims and analytics are those of the store.
C24_DisplayCurrentWhenIdle ==
    /\ \A k \in DOMAIN dash.threads :
          dash.threads[k].pc = "update" => dash.threads[k].done = {}
    /\ dash.threads = <<>> =>
          /\ dash.items = getAllItems
          /\ dash.claims = getAllClaims
          /\ dash.analytics = getAnalytics

\* C29: while the store update of an action on an entity is in flight, the
\* buttons of that entity cannot be used (they are disabled, or the loader is
\* shown instead of the tables), also after an action was started on another
\* entity; so no two actions on one entity are in flight in a session.
C29_InFlightEntityDisabled ==
    /\ \A k \in DOMAIN dash.threads :
          dash.threads[k].pc = "update" =>
             \/ dash.loading
             \/ dash.actionLoading = dash.threads[k].entity
    /\ \A k, j \in DOMAIN dash.threads :
          (/\ k # j
           /\ dash.threads[k].pc = "update"
           /\ dash.threads[j].pc = "update") =>
             dash.threads[k].entity # dash.threads[j].entity

\* C30: once a refresh of the dashboard has completed, what it displays is
\* consistent with itself, also when other sessions wrote during the refresh:
\* analytics.totalItems is the number of displayed items, analytics.totalClaims
\* the number of displayed claims, and every displayed claim is on a displayed
\* item.
C30_SnapshotConsistent ==
    (dash.threads = <<>> /\ ~dash.loading) =>
        /\ dash.analytics.totalItems = Len(dash.items)
        /\ dash.analytics.totalClaims = Len(dash.claims)
        /\ \A k \in DOMAIN dash.claims :
              \E j \in DOMAIN dash.items : dash.items[j].id = dash.claims[k].item_id

====
